---- MODULE Spec2Model ----
(***************************************************************************)
(* One render of the merchant dashboard script src/app.py: the session     *)
(* check, the merchant mapping, the CSV loader, the column validation, the *)
(* field clean-up, the merchant filter, the daily aggregation, the date    *)
(* range filter and the KPI step.  Every step of the script is one action; *)
(* pc is the position of the script.                                       *)
(*                                                                         *)
(* Text is a tuple of one-character strings, so that strip and casefold    *)
(* are computed.  A parsed timestamp is <<day, time-of-day>>, a calendar   *)
(* date is <<day>>, a parsed amount is <<n>>; the missing value (NaT, NaN, *)
(* None) is the empty tuple.                                               *)
(***************************************************************************)
EXTENDS Integers, Sequences, FiniteSets

VARIABLES pc, auth_status, username, users_cfg, merchant_id, fs, reads, tx,
          merchant_tx, daily, min_date, max_date, start_date, end_date,
          kpi, msg, stages

vars == <<pc, auth_status, username, users_cfg, merchant_id, fs, reads, tx,
          merchant_tx, daily, min_date, max_date, start_date, end_date,
          kpi, msg, stages>>

\* Largest number of rows of a generated CSV table.
MaxRows == 3

Null == <<>>

-----------------------------------------------------------------------------
(* Text helpers *)

IsSpace(c) == c = " "

RECURSIVE LStrip(_)
LStrip(s) == IF s # <<>> /\ IsSpace(Head(s)) THEN LStrip(Tail(s)) ELSE s

RECURSIVE RStrip(_)
RStrip(s) ==
    IF s # <<>> /\ IsSpace(s[Len(s)]) THEN RStrip(SubSeq(s, 1, Len(s) - 1)) ELSE s

\* str.strip(): leading and trailing whitespace removed.
Strip(s) == RStrip(LStrip(s))

Lower(c) == CASE c = "M" -> "m" [] c = "N" -> "n" [] OTHER -> c

\* str.casefold()
CaseFold(s) == [i \in DOMAIN s |-> Lower(s[i])]

\* str(uname): the text of a username, "None" for the missing one.
Str(u) == IF u = Null THEN <<"N", "o", "n", "e">> ELSE u

SetMin(S) == CHOOSE x \in S : \A y \in S : x <= y

-----------------------------------------------------------------------------
(* Session and merchant mapping *)

\* users_cfg is the table of the secrets in its order: <<username, record>>.
CfgKeys(cfg) == {cfg[i][1] : i \in DOMAIN cfg}

get_user_record(cfg, uname) ==
    IF uname # Null /\ uname \in CfgKeys(cfg)
    THEN <<cfg[CHOOSE i \in DOMAIN cfg : cfg[i][1] = uname][2]>>
    ELSE LET uname_cf == CaseFold(Str(uname))
             hits == {i \in DOMAIN cfg : CaseFold(cfg[i][1]) = uname_cf}
         IN  IF hits = {} THEN Null ELSE <<cfg[SetMin(hits)][2]>>

\* Faulty variant: only the absent record is refused, a record without
\* merchant_id passes.
MappingMissingOnlyNone(rec) == rec = Null

\* not merchant_rec or "merchant_id" not in merchant_rec
MappingMissing(rec) ==
    \/ rec = Null
    \/ rec[1].keys = {}
    \/ "merchant_id" \notin rec[1].keys

-----------------------------------------------------------------------------
(* Dataset loader *)

RootCsv == "sample_merchant_transactions.csv"
DataCsv == "data/sample_merchant_transactions.csv"

\* Faulty variant: the location under data/ is tried first.
CandidatesDataFirst == <<DataCsv, RootCsv>>

\* The candidate locations, in the order of the loop.
Candidates == <<RootCsv, DataCsv>>

\* A file that pd.read_csv cannot read (absent, empty, not a table).
Unreadable == [ok |-> FALSE, cols |-> {}, rows |-> <<>>]

NoFrame == [cols |-> {}, rows |-> <<>>]

\* df["__path__"] = p: the column is added and every row carries p.
Tag(file, p) ==
    [cols |-> file.cols \cup {"__path__"},
     rows |-> [i \in DOMAIN file.rows |->
                 [mkey |-> file.rows[i].mkey, date |-> file.rows[i].date,
                  amt |-> file.rows[i].amt, path |-> p]]]

\* The loop of load_transactions over the candidates ps; tried is the
\* sequence of locations handed to pd.read_csv so far.
RECURSIVE TryPaths(_, _, _)
TryPaths(files, ps, tried) ==
    IF ps = <<>>
    THEN [found |-> FALSE, df |-> NoFrame, reads |-> tried]
    ELSE LET p == Head(ps)
         IN  IF files[p].ok
             THEN [found |-> TRUE, df |-> Tag(files[p], p),
                   reads |-> Append(tried, p)]
             ELSE TryPaths(files, Tail(ps), Append(tried, p))

load_transactions(files) == TryPaths(files, Candidates, <<>>)

\* The locations the FileNotFoundError text names.
NotFoundNames == {RootCsv, DataCsv}

-----------------------------------------------------------------------------
(* Column validation and field clean-up *)

needed == {"Merchant Number - Business Name", "Transaction Date", "Settle Amount"}

missing(df) == needed \ df.cols

\* pd.to_datetime(..., errors="coerce") on the cell texts of the model.
ToDatetime(text) ==
    CASE text = "2024-01-01 00:00" -> <<1, 0>>
      [] text = "2024-01-01 17:45" -> <<1, 1>>
      [] text = "2024-01-02 08:00" -> <<2, 1>>
      [] text = "2024-01-03 08:00" -> <<3, 1>>
      [] OTHER -> Null

\* pd.to_numeric(..., errors="coerce") on the cell texts of the model.
ToNumeric(text) ==
    CASE text = "100" -> <<100>>
      [] text = "50" -> <<50>>
      [] text = "0" -> <<0>>
      [] OTHER -> Null

CleanRow(r) ==
    [mkey |-> Strip(r.mkey), date |-> ToDatetime(r.date),
     amt |-> ToNumeric(r.amt), path |-> r.path]

Clean(df) == [cols |-> df.cols, rows |-> [i \in DOMAIN df.rows |-> CleanRow(df.rows[i])]]

\* Faulty variant: the keys are compared without regard to case.
RowMatchesFolded(r, mid) == CaseFold(r.mkey) = CaseFold(mid)

\* tx[tx["Merchant Number - Business Name"] == merchant_id]
RowMatches(r, mid) == r.mkey = mid

FilterMerchant(rows, mid) == SelectSeq(rows, LAMBDA r : RowMatches(r, mid))

-----------------------------------------------------------------------------
(* Daily aggregation *)

\* Series.dt.date: the calendar date of a timestamp, time of day discarded;
\* the missing timestamp gives the missing date.
DtDate(ts) == IF ts = Null THEN Null ELSE <<ts[1]>>

\* pd.to_datetime of a calendar date: midnight of that day.
DateToDatetime(d) == IF d = Null THEN Null ELSE <<d[1], 0>>

\* Order of timestamps; a comparison with the missing value is false.
TsLess(a, b) ==
    /\ a # Null
    /\ b # Null
    /\ \/ a[1] < b[1]
       \/ a[1] = b[1] /\ a[2] < b[2]

\* Order of calendar dates; a comparison with the missing value is false.
DateLE(a, b) == a # Null /\ b # Null /\ a[1] <= b[1]

\* Faulty variant: the rows are grouped by the timestamp, time of day kept.
GroupKeyTimestamp(r) == r.date

\* The key a row is grouped by.
GroupKey(r) == DtDate(r.date)

\* The group keys in the order groupby emits them: ascending, the missing
\* key (kept by dropna=False) last.
RECURSIVE SortedKeys(_)
SortedKeys(K) ==
    IF K = {} THEN <<>>
    ELSE IF K = {Null} THEN <<Null>>
    ELSE LET k == CHOOSE x \in K \ {Null} : \A y \in K \ {Null} : x[1] <= y[1]
         IN  <<k>> \o SortedKeys(K \ {k})

\* "sum" of a group: the non-null amounts added up, 0 for none.
RECURSIVE AggSum(_, _)
AggSum(rows, k) ==
    IF rows = <<>> THEN 0
    ELSE LET r == Head(rows)
         IN  (IF GroupKey(r) = k /\ r.amt # Null THEN r.amt[1] ELSE 0)
             + AggSum(Tail(rows), k)

\* "count" of a group: the number of its non-null amounts.
RECURSIVE AggCount(_, _)
AggCount(rows, k) ==
    IF rows = <<>> THEN 0
    ELSE LET r == Head(rows)
         IN  (IF GroupKey(r) = k /\ r.amt # Null THEN 1 ELSE 0)
             + AggCount(Tail(rows), k)

\* groupby(...dt.date, dropna=False).agg(revenue=sum, orders=count)
\*   .reset_index().rename(...)
GroupAgg(rows) ==
    LET keys == SortedKeys({GroupKey(rows[i]) : i \in DOMAIN rows})
    IN  [j \in DOMAIN keys |->
           [date |-> keys[j], revenue |-> AggSum(rows, keys[j]),
            orders |-> AggCount(rows, keys[j])]]

\* daily["date"] = pd.to_datetime(daily["date"], errors="coerce")
NormalizeDates(recs) ==
    [j \in DOMAIN recs |->
       [date |-> DateToDatetime(recs[j].date), revenue |-> recs[j].revenue,
        orders |-> recs[j].orders]]

\* dropna(subset=["date"])
DropNaDate(recs) == SelectSeq(recs, LAMBDA r : r.date # Null)

\* sort_values("date"): a stable sort, ascending.
RECURSIVE Insert(_, _)
Insert(r, sorted) ==
    IF sorted = <<>> THEN <<r>>
    ELSE IF TsLess(r.date, Head(sorted).date) THEN <<r>> \o sorted
    ELSE <<Head(sorted)>> \o Insert(r, Tail(sorted))

RECURSIVE SortValues(_)
SortValues(recs) ==
    IF recs = <<>> THEN <<>>
    ELSE Insert(recs[Len(recs)], SortValues(SubSeq(recs, 1, Len(recs) - 1)))

RECURSIVE GCD(_, _)
GCD(a, b) == IF b = 0 THEN a ELSE GCD(b, a % b)

NaN == [kind |-> "nan", num |-> 0, den |-> 1]
Inf == [kind |-> "inf", num |-> 0, den |-> 1]

\* revenue / orders of two columns: the quotient as a fraction in lowest
\* terms; a zero divisor raises nothing and gives nan (0/0) or inf.
Divide(revenue, orders) ==
    IF orders = 0
    THEN (IF revenue = 0 THEN NaN ELSE Inf)
    ELSE LET g == GCD(revenue, orders)
         IN  [kind |-> "num", num |-> revenue \div g, den |-> orders \div g]

\* Series.where(cond): the value where cond holds, missing elsewhere.
Where(value, cond) == IF cond THEN value ELSE NaN

\* Faulty variant: a day without orders gets the average 0.
AovOfZeroFilled(revenue, orders) ==
    IF orders > 0 THEN Divide(revenue, orders)
    ELSE [kind |-> "num", num |-> 0, den |-> 1]

\* (daily["revenue"] / daily["orders"]).where(daily["orders"] > 0)
AovOf(revenue, orders) == Where(Divide(revenue, orders), orders > 0)

WithAov(recs) ==
    [j \in DOMAIN recs |->
       [date |-> recs[j].date, revenue |-> recs[j].revenue,
        orders |-> recs[j].orders,
        aov |-> AovOf(recs[j].revenue, recs[j].orders)]]

\* The whole aggregation statement group of the script.
Aggregate(rows) == WithAov(SortValues(DropNaDate(NormalizeDates(GroupAgg(rows)))))

-----------------------------------------------------------------------------
(* Date range and KPIs *)

\* daily["date"].min().date() and .max().date(): missing for an empty series.
MinDate(recs) ==
    IF recs = <<>> THEN Null
    ELSE DtDate(recs[CHOOSE i \in DOMAIN recs :
                       \A j \in DOMAIN recs : ~TsLess(recs[j].date, recs[i].date)].date)

MaxDate(recs) ==
    IF recs = <<>> THEN Null
    ELSE DtDate(recs[CHOOSE i \in DOMAIN recs :
                       \A j \in DOMAIN recs : ~TsLess(recs[i].date, recs[j].date)].date)

\* Faulty variant: the end of the window is excluded.
InWindowOpenEnd(r, s, e) ==
    /\ DateLE(s, DtDate(r.date))
    /\ DateLE(DtDate(r.date), e)
    /\ DtDate(r.date) # e

InWindow(r, s, e) == DateLE(s, DtDate(r.date)) /\ DateLE(DtDate(r.date), e)

\* daily[(daily["date"].dt.date >= start_date) & (... <= end_date)]
RangeFilter(recs, s, e) == SelectSeq(recs, LAMBDA r : InWindow(r, s, e))

RECURSIVE SumField(_, _)
SumField(recs, f) ==
    IF recs = <<>> THEN 0 ELSE Head(recs)[f] + SumField(Tail(recs), f)

NoKpi == [shown |-> FALSE, total_rev |-> 0, total_orders |-> 0, aov_latest |-> NaN]

Kpis(recs) ==
    [shown |-> TRUE,
     total_rev |-> IF recs # <<>> THEN SumField(recs, "revenue") ELSE 0,
     total_orders |-> IF recs # <<>> THEN SumField(recs, "orders") ELSE 0,
     aov_latest |-> IF recs # <<>> THEN recs[Len(recs)].aov ELSE NaN]

-----------------------------------------------------------------------------
(* Inputs of a render: the session, the secrets, the files *)

AllKeys == {"name", "email", "password_hash", "merchant_id"}

M1 == <<"M", "1">>

RecM1 == [keys |-> AllKeys, merchant_id |-> M1]
RecLower == [keys |-> AllKeys, merchant_id |-> <<"m", "1">>]
RecNoMid == [keys |-> AllKeys \ {"merchant_id"}, merchant_id |-> Null]
RecEmpty == [keys |-> {}, merchant_id |-> Null]

UserMN == <<"M", "N">>

Configs ==
    { <<>>,
      << <<UserMN, RecM1>> >>,
      << <<<<"M", "n">>, RecLower>>, <<<<"m", "N">>, RecM1>> >>,
      << <<UserMN, RecNoMid>> >>,
      << <<UserMN, RecEmpty>> >> }

SessionUsers == {Null, UserMN, <<"m", "n">>, <<"X">>}

AuthStates == {"True", "False", "None"}

DateTexts ==
    {"2024-01-01 00:00", "2024-01-01 17:45", "2024-01-02 08:00",
     "2024-01-03 08:00", "not a date"}
AmountTexts == {"100", "50", "n/a"}

Row(k, d, a) == [mkey |-> k, date |-> d, amt |-> a]

\* The rows of the logged-in merchant as the file writes them (the key
\* padded with blanks), every date text with every amount text.
OwnRows == {Row(<<" ", "M", "1", " ">>, d, a) : d \in DateTexts, a \in AmountTexts}

\* Rows of another merchant, whose key differs from M1 in case only.
OtherRows ==
    { Row(<<"m", "1">>, "2024-01-01 17:45", "100"),
      Row(<<"m", "1">>, "2024-01-02 08:00", "50"),
      Row(<<"m", "1">>, "not a date", "n/a") }

RawRows == OwnRows \cup OtherRows

RowLists == UNION {[1..n -> RawRows] : n \in 0..MaxRows}

File(cols, rows) == [ok |-> TRUE, cols |-> cols, rows |-> rows]

\* The files of the renders that vary the session and the secrets.
SmallFiles ==
    { Unreadable,
      File(needed, <<>>),
      File(needed, <<Row(M1, "2024-01-01 00:00", "100")>>),
      File(needed, <<Row(<<"M", "2">>, "2024-01-02 08:00", "50")>>),
      File(needed \ {"Settle Amount"}, <<Row(M1, "2024-01-01 00:00", "")>>) }

Blank ==
    /\ pc = "auth"
    /\ merchant_id = Null
    /\ reads = <<>>
    /\ tx = NoFrame
    /\ merchant_tx = <<>>
    /\ daily = <<>>
    /\ min_date = Null
    /\ max_date = Null
    /\ start_date = Null
    /\ end_date = Null
    /\ kpi = NoKpi
    /\ msg = ""
    /\ stages = {}

\* Any session, any secrets, small files at both locations.
InitSession ==
    /\ auth_status \in AuthStates
    /\ username \in SessionUsers
    /\ users_cfg \in Configs
    /\ fs \in [{RootCsv, DataCsv} -> SmallFiles]
    /\ Blank

\* A logged-in merchant and every table of at most MaxRows rows.
InitData ==
    /\ auth_status = "True"
    /\ username = UserMN
    /\ users_cfg = << <<UserMN, RecM1>> >>
    /\ \E rows \in RowLists :
         fs = [p \in {RootCsv, DataCsv} |->
                 IF p = RootCsv THEN File(needed, rows) ELSE Unreadable]
    /\ Blank

Init == InitSession \/ InitData

-----------------------------------------------------------------------------
(* The steps of the script *)

\* st.stop() after a message: the script ends here.
Stop(stage, text) ==
    /\ pc' = "stopped"
    /\ msg' = text
    /\ stages' = stages \cup {stage}

\* An exception nobody catches: the script ends with its text.
Raise(stage, text) ==
    /\ pc' = "raised"
    /\ msg' = text
    /\ stages' = stages \cup {stage}

Go(stage, next) ==
    /\ pc' = next
    /\ msg' = msg
    /\ stages' = stages \cup {stage}

CheckAuth ==
    /\ pc = "auth"
    /\ IF auth_status = "False" THEN Stop("auth", "Invalid credentials")
       ELSE IF auth_status = "None" THEN Stop("auth", "Please log in.")
       ELSE Go("auth", "mapping")
    /\ UNCHANGED <<auth_status, username, users_cfg, merchant_id, fs, reads, tx,
                   merchant_tx, daily, min_date, max_date, start_date,
                   end_date, kpi>>

MapMerchant ==
    /\ pc = "mapping"
    /\ LET merchant_rec == get_user_record(users_cfg, username)
       IN  IF MappingMissing(merchant_rec)
           THEN /\ Stop("mapping", "Merchant mapping not found for this user.")
                /\ merchant_id' = merchant_id
           ELSE /\ Go("mapping", "load")
                /\ merchant_id' = merchant_rec[1].merchant_id
    /\ UNCHANGED <<auth_status, username, users_cfg, fs, reads, tx,
                   merchant_tx, daily, min_date, max_date, start_date,
                   end_date, kpi>>

LoadTransactions ==
    /\ pc = "load"
    /\ LET res == load_transactions(fs)
       IN  /\ reads' = res.reads
           /\ IF res.found
              THEN /\ Go("load", "validate")
                   /\ tx' = res.df
              ELSE /\ Raise("load", "CSV not found.")
                   /\ tx' = tx
    /\ UNCHANGED <<auth_status, username, users_cfg, merchant_id, fs,
                   merchant_tx, daily, min_date, max_date, start_date,
                   end_date, kpi>>

Validate ==
    /\ pc = "validate"
    /\ IF missing(tx) # {}
       THEN Stop("validate", "Missing required column(s) in CSV")
       ELSE Go("validate", "clean")
    /\ UNCHANGED <<auth_status, username, users_cfg, merchant_id, fs, reads, tx,
                   merchant_tx, daily, min_date, max_date, start_date,
                   end_date, kpi>>

CleanFields ==
    /\ pc = "clean"
    /\ tx' = Clean(tx)
    /\ Go("clean", "filter")
    /\ UNCHANGED <<auth_status, username, users_cfg, merchant_id, fs, reads,
                   merchant_tx, daily, min_date, max_date, start_date,
                   end_date, kpi>>

\* Faulty variant: the empty selection is not noticed.
NoRowsNever(rows) == FALSE

\* merchant_tx.empty
NoRows(rows) == rows = <<>>

FilterRows ==
    /\ pc = "filter"
    /\ merchant_tx' = FilterMerchant(tx.rows, merchant_id)
    /\ IF NoRows(merchant_tx')
       THEN Stop("filter", "No transactions found for merchant")
       ELSE Go("filter", "aggregate")
    /\ UNCHANGED <<auth_status, username, users_cfg, merchant_id, fs, reads, tx,
                   daily, min_date, max_date, start_date, end_date, kpi>>

AggregateDaily ==
    /\ pc = "aggregate"
    /\ daily' = Aggregate(merchant_tx)
    /\ Go("aggregate", "bounds")
    /\ UNCHANGED <<auth_status, username, users_cfg, merchant_id, fs, reads, tx,
                   merchant_tx, min_date, max_date, start_date, end_date, kpi>>

DateBounds ==
    /\ pc = "bounds"
    /\ min_date' = MinDate(daily)
    /\ max_date' = MaxDate(daily)
    /\ Go("bounds", "picker")
    /\ UNCHANGED <<auth_status, username, users_cfg, merchant_id, fs, reads, tx,
                   merchant_tx, daily, start_date, end_date, kpi>>

\* The date picker and the range filter.  With dates as bounds the picker
\* returns a window inside them.  With the missing value as bounds the
\* widget is outside its contract: it may raise, or hand the bounds back.
PickRange ==
    /\ pc = "picker"
    /\ IF min_date = Null
       THEN \/ /\ Raise("range", "date_input")
               /\ UNCHANGED <<daily, start_date, end_date>>
            \/ /\ Go("range", "present")
               /\ start_date' = min_date
               /\ end_date' = max_date
               /\ daily' = RangeFilter(daily, min_date, max_date)
       ELSE \E s, e \in min_date[1]..max_date[1] :
               /\ s <= e
               /\ start_date' = <<s>>
               /\ end_date' = <<e>>
               /\ daily' = RangeFilter(daily, <<s>>, <<e>>)
               /\ Go("range", "present")
    /\ UNCHANGED <<auth_status, username, users_cfg, merchant_id, fs, reads, tx,
                   merchant_tx, min_date, max_date, kpi>>

Present ==
    /\ pc = "present"
    /\ kpi' = Kpis(daily)
    /\ Go("present", "done")
    /\ UNCHANGED <<auth_status, username, users_cfg, merchant_id, fs, reads, tx,
                   merchant_tx, daily, min_date, max_date, start_date, end_date>>

Next ==
    \/ CheckAuth
    \/ MapMerchant
    \/ LoadTransactions
    \/ Validate
    \/ CleanFields
    \/ FilterRows
    \/ AggregateDaily
    \/ DateBounds
    \/ PickRange
    \/ Present

Spec == Init /\ [][Next]_vars

-----------------------------------------------------------------------------
(* Vocabulary of the properties *)

\* daily holds the whole aggregate: computed, not yet cut to a window.
Aggregated == pc \in {"bounds", "picker"}

\* daily holds an aggregate, whole or cut to the window.
HasDaily == pc \in {"bounds", "picker", "present", "done"}

Dated(rows) == {i \in DOMAIN rows : rows[i].date # Null}

\* The calendar days among the parseable dates of rows.
DaysOf(rows) == {rows[i].date[1] : i \in Dated(rows)}

OnDay(rows, d) == {i \in Dated(rows) : rows[i].date[1] = d}

RECURSIVE AmountTotal(_, _)
AmountTotal(rows, I) ==
    IF I = {} THEN 0
    ELSE LET i == CHOOSE x \in I : TRUE
         IN  (IF rows[i].amt = Null THEN 0 ELSE rows[i].amt[1])
             + AmountTotal(rows, I \ {i})

Priced(rows, I) == {i \in I : rows[i].amt # Null}

RecordsOn(d) == {j \in DOMAIN daily : daily[j].date = <<d, 0>>}

\* The file the loaded table came from.
Source == fs[reads[Len(reads)]]

Halted == pc \in {"stopped", "raised"}

-----------------------------------------------------------------------------
(* C1 *)

\* C1: for every calendar date with at least one merchant row of parseable
\* date, the daily record of that date has revenue = the sum of the
\* non-null settle amounts of the date's rows and orders = the number of
\* rows of that date, rows with a null amount included.
C1_RevenueSumOrdersRowCount ==
    Aggregated =>
      \A d \in DaysOf(merchant_tx) :
        \E j \in RecordsOn(d) :
          /\ daily[j].revenue = AmountTotal(merchant_tx, OnDay(merchant_tx, d))
          /\ daily[j].orders = Cardinality(OnDay(merchant_tx, d))

-----------------------------------------------------------------------------
(* C2 *)

\* C2: every record of the daily aggregate has orders >= 0, has aov defined
\* exactly when orders > 0, and then aov = revenue / orders; no aov is the
\* outcome of a division by zero.
C2_AovDefinedIffOrders ==
    HasDaily =>
      \A j \in DOMAIN daily :
        /\ daily[j].orders >= 0
        /\ daily[j].aov.kind = "num" <=> daily[j].orders > 0
        /\ daily[j].aov.kind # "inf"
        /\ daily[j].aov.kind = "num" =>
             daily[j].aov.num * daily[j].orders = daily[j].revenue * daily[j].aov.den

\* A day with no order (its only amount is null) beside a day whose
\* average is not a whole number.
C2_Witness ==
    /\ Aggregated
    /\ \E j, k \in DOMAIN daily :
         /\ daily[j].orders = 0
         /\ daily[j].aov.kind = "nan"
         /\ daily[k].orders = 2
         /\ daily[k].aov.kind = "num"

-----------------------------------------------------------------------------
(* C3 *)

\* C3: the daily aggregate holds exactly one record for each distinct
\* calendar date among the merchant's rows of parseable date (time of day
\* discarded), no two records share a date, and the dates strictly ascend.
C3_OneRecordPerDateAscending ==
    Aggregated =>
      /\ {daily[j].date : j \in DOMAIN daily}
           = {<<d, 0>> : d \in DaysOf(merchant_tx)}
      /\ \A j, k \in DOMAIN daily : j # k => daily[j].date # daily[k].date
      /\ \A j, k \in DOMAIN daily : j < k => TsLess(daily[j].date, daily[k].date)

\* Two rows of one day at different times, after a row of a later day.
C3_Witness ==
    /\ Aggregated
    /\ Len(daily) = 2
    /\ \E a, b, c \in DOMAIN merchant_tx :
         /\ a < b
         /\ b < c
         /\ merchant_tx[a].date = <<2, 1>>
         /\ merchant_tx[b].date = <<1, 1>>
         /\ merchant_tx[c].date = <<1, 0>>

-----------------------------------------------------------------------------
(* C4 *)

Undated(rows) == {i \in DOMAIN rows : rows[i].date = Null}

\* C4: a merchant row of unparseable date contributes to no daily record
\* (the records are those of the dated rows alone, none has a null date),
\* and the presence of such rows never makes the render fail.
C4_UndatedRowsIgnoredNoFailure ==
    /\ Aggregated =>
         /\ \A j \in DOMAIN daily : daily[j].date # Null
         /\ \A j \in DOMAIN daily :
              LET I == OnDay(merchant_tx, daily[j].date[1])
              IN  /\ daily[j].revenue = AmountTotal(merchant_tx, I)
                  /\ daily[j].orders = Cardinality(Priced(merchant_tx, I))
         /\ Len(daily) = Cardinality(DaysOf(merchant_tx))
    /\ Undated(merchant_tx) # {} => pc # "raised"

-----------------------------------------------------------------------------
(* C5 *)

\* The rows of the file whose trimmed key is, character for character,
\* the merchant identifier.
Mine == {i \in DOMAIN Source.rows : Strip(Source.rows[i].mkey) = merchant_id}

\* The rows of the whole table on day d that are the merchant's.
Kept(d) == OnDay(tx.rows, d) \cap Mine

\* C5: only rows whose trimmed key equals, case-sensitively, the
\* merchant_id bound to the user contribute; the aggregate of the filtered
\* table is what grouping the whole table by date and keeping the
\* merchant's rows inside each group gives.
C5_FilterCommutesWithGrouping ==
    Aggregated =>
      LET days == {d \in DaysOf(tx.rows) : Kept(d) # {}}
      IN  /\ \E u \in DOMAIN users_cfg :
                /\ CaseFold(users_cfg[u][1]) = CaseFold(Str(username))
                /\ users_cfg[u][2].merchant_id = merchant_id
          /\ {<<daily[j].date, daily[j].revenue, daily[j].orders>> : j \in DOMAIN daily}
               = {<<<<d, 0>>, AmountTotal(tx.rows, Kept(d)),
                    Cardinality(Priced(tx.rows, Kept(d)))>> : d \in days}
          /\ Len(daily) = Cardinality(days)

\* Another merchant's priced row on a day of the merchant, and another
\* merchant's row on a day the merchant has no row.
C5_Witness ==
    /\ Aggregated
    /\ \E i, k, l \in DOMAIN tx.rows :
         /\ tx.rows[i].mkey = merchant_id
         /\ tx.rows[k].mkey # merchant_id
         /\ tx.rows[l].mkey # merchant_id
         /\ tx.rows[i].date # Null
         /\ tx.rows[k].date = tx.rows[i].date
         /\ tx.rows[k].amt # Null
         /\ tx.rows[l].date # Null
         /\ Kept(tx.rows[l].date[1]) = {}

-----------------------------------------------------------------------------
(* C6 *)

FailureTexts ==
    {"Please log in.", "Invalid credentials",
     "Merchant mapping not found for this user.", "CSV not found.",
     "Missing required column(s) in CSV", "No transactions found for merchant"}

\* Nothing of the aggregation, the range filter or the KPI step has run.
NothingAggregated ==
    /\ stages \cap {"aggregate", "bounds", "range", "present"} = {}
    /\ daily = <<>>
    /\ min_date = Null
    /\ start_date = Null
    /\ kpi = NoKpi

\* C6: each of the six failure conditions ends the render with a message of
\* its own and halts it, no later stage running; a table without a row of
\* the merchant gives the 'no transactions' warning and no aggregate.
C6_FailuresHaltWithOwnMessage ==
    /\ Cardinality(FailureTexts) = 6
    /\ msg # "" => Halted
    /\ msg \in FailureTexts => NothingAggregated
    /\ "auth" \in stages =>
         /\ auth_status = "None" <=> msg = "Please log in."
         /\ auth_status = "False" <=> msg = "Invalid credentials"
         /\ auth_status # "True" => pc = "stopped" /\ stages = {"auth"}
    /\ "mapping" \in stages =>
         /\ merchant_id = Null <=> msg = "Merchant mapping not found for this user."
         /\ merchant_id = Null => pc = "stopped" /\ stages = {"auth", "mapping"}
    /\ "load" \in stages =>
         /\ (\A p \in DOMAIN fs : ~fs[p].ok) <=> msg = "CSV not found."
         /\ (\A p \in DOMAIN fs : ~fs[p].ok) =>
              Halted /\ stages = {"auth", "mapping", "load"}
    /\ "validate" \in stages =>
         /\ ~(needed \subseteq Source.cols) <=> msg = "Missing required column(s) in CSV"
         /\ ~(needed \subseteq Source.cols) =>
              pc = "stopped" /\ stages = {"auth", "mapping", "load", "validate"}
    /\ "filter" \in stages =>
         /\ Mine = {} <=> msg = "No transactions found for merchant"
         /\ Mine = {} =>
              /\ pc = "stopped"
              /\ stages = {"auth", "mapping", "load", "validate", "clean", "filter"}

\* A table with rows, none of them the merchant's, has ended in the warning.
C6_Witness ==
    /\ pc = "stopped"
    /\ msg = "No transactions found for merchant"
    /\ tx.rows # <<>>
    /\ merchant_tx = <<>>

-----------------------------------------------------------------------------
(* C7 *)

\* C7: the dataset is read only after the login has succeeded and a
\* merchant record holding merchant_id has been found for the user; with
\* the status False or None, or without the mapping, nothing is read.
C7_ReadOnlyAfterAuthAndMapping ==
    /\ reads # <<>> =>
         /\ auth_status = "True"
         /\ {"auth", "mapping"} \subseteq stages
         /\ merchant_id # Null
         /\ \E u \in DOMAIN users_cfg :
              /\ CaseFold(users_cfg[u][1]) = CaseFold(Str(username))
              /\ "merchant_id" \in users_cfg[u][2].keys
              /\ users_cfg[u][2].merchant_id = merchant_id
    /\ (auth_status # "True" \/ (Halted /\ stages = {"auth", "mapping"})) =>
         reads = <<>> /\ tx = NoFrame

\* A read has happened for a user found by the case-insensitive fallback.
C7_Witness ==
    /\ reads # <<>>
    /\ username \notin CfgKeys(users_cfg)
    /\ Len(users_cfg) = 2

-----------------------------------------------------------------------------
(* C8 *)

\* The positions of recs whose calendar date lies in [s, e], ends included.
Inside(recs, s, e) ==
    {j \in DOMAIN recs :
       /\ s # Null
       /\ e # Null
       /\ s[1] <= recs[j].date[1]
       /\ recs[j].date[1] <= e[1]}

\* sub is recs restricted to the positions in J, in the order of recs.
IsRestriction(sub, recs, J) ==
    /\ Len(sub) = Cardinality(J)
    /\ \A n \in DOMAIN sub :
         \E j \in J :
           /\ Cardinality({i \in J : i <= j}) = n
           /\ sub[n] = recs[j]

\* C8: the range filter returns exactly the records with
\* start <= date <= end, in their order and unchanged; with the window
\* [min_date, max_date] it returns the whole sequence.
C8_RangeFilterInclusive ==
    [][(pc = "picker" /\ pc' = "present") =>
         /\ IsRestriction(daily', daily, Inside(daily, start_date', end_date'))
         /\ (start_date' = min_date /\ end_date' = max_date) => daily' = daily
      ]_vars

\* A window that ends on a day of the aggregate and cuts off both a day
\* before it and a day after it.
C8_Witness ==
    /\ pc = "present"
    /\ Len(daily) = 1
    /\ min_date = <<1>>
    /\ max_date = <<3>>
    /\ start_date = <<2>>
    /\ end_date = <<2>>
    /\ daily[1].date = <<2, 0>>

-----------------------------------------------------------------------------
(* C9 *)

SameCells(df, file, p) ==
    /\ df.cols = file.cols \cup {"__path__"}
    /\ Len(df.rows) = Len(file.rows)
    /\ \A i \in DOMAIN df.rows :
         /\ df.rows[i].mkey = file.rows[i].mkey
         /\ df.rows[i].date = file.rows[i].date
         /\ df.rows[i].amt = file.rows[i].amt
         /\ df.rows[i].path = p

\* C9: the loader tries the root file, then the one under data/; it returns
\* the table of the first that reads, every row tagged with that location,
\* and does not read the second when the first reads; when neither reads it
\* fails with an error naming every location tried and returns no table.
C9_LoaderOrderAndFailure ==
    "load" \in stages =>
      /\ fs[RootCsv].ok =>
           /\ reads = <<RootCsv>>
           /\ \A i \in DOMAIN tx.rows : tx.rows[i].path = RootCsv
           /\ pc = "validate" => SameCells(tx, fs[RootCsv], RootCsv)
      /\ (~fs[RootCsv].ok /\ fs[DataCsv].ok) =>
           /\ reads = <<RootCsv, DataCsv>>
           /\ \A i \in DOMAIN tx.rows : tx.rows[i].path = DataCsv
           /\ pc = "validate" => SameCells(tx, fs[DataCsv], DataCsv)
      /\ (~fs[RootCsv].ok /\ ~fs[DataCsv].ok) =>
           /\ reads = <<RootCsv, DataCsv>>
           /\ pc = "raised"
           /\ msg = "CSV not found."
           /\ {reads[i] : i \in DOMAIN reads} \subseteq NotFoundNames
           /\ tx = NoFrame
      /\ (fs[RootCsv].ok \/ fs[DataCsv].ok) => msg # "CSV not found."

\* The root file is unreadable and the rows of the file under data/ came
\* back, tagged.
C9_Witness ==
    /\ pc = "validate"
    /\ reads = <<RootCsv, DataCsv>>
    /\ tx.rows # <<>>
    /\ tx.rows[1].path = DataCsv

-----------------------------------------------------------------------------
(* C10 *)

\* C10: when the render reaches the date picker the daily aggregate is not
\* empty, so min_date and max_date are calendar dates, min_date <= max_date.
C10_BoundsDefinedAtPicker ==
    pc = "picker" =>
      /\ daily # <<>>
      /\ min_date # Null
      /\ max_date # Null
      /\ min_date[1] <= max_date[1]

====
